---- MODULE Spec2Model ----
(***************************************************************************)
(* Model of SEAT/composition_functions.py: the symbol classifiers          *)
(* are_elements / are_nuclides, unfold_composite, pollute and enrich.      *)
(*                                                                         *)
(* Python objects live in a heap (object id -> dict) so that aliasing and  *)
(* in-place mutation are expressible.  A dict is an insertion-ordered      *)
(* sequence of <<key, value>> items with distinct keys.  A str is a        *)
(* sequence of one-character strings.  Abundances are exact rationals      *)
(* <<numerator, denominator>> in lowest terms (floating-point rounding is  *)
(* not modelled).                                                          *)
(***************************************************************************)
EXTENDS Integers, Sequences, FiniteSets, TLC

VARIABLES heap, keys, call, ret, answer, status

vars == <<heap, keys, call, ret, answer, status>>

(* ---------------------------- bounds ---------------------------------- *)
\* largest number of items of an abundance / composite dict
MaxLen == 3
\* largest number of items of a pollutants / enrichers dict
MaxEnr == 2
\* abundance values are 0, 2/3, ..., 2*MaxNum/3
MaxNum == 1
\* longest str handed to the classifiers
MaxStrLen == 2
\* largest key set handed to the classifiers
MaxKeys == 2

(* ------------------------- exact rationals ---------------------------- *)
Abs(x) == IF x < 0 THEN -x ELSE x

RECURSIVE GCD(_, _)
GCD(a, b) == IF b = 0 THEN a ELSE GCD(b, a % b)

\* the rational n/d (d # 0) in lowest terms with a positive denominator
R(n, d) ==
    LET g == GCD(Abs(n), Abs(d))
        s == IF d < 0 THEN -1 ELSE 1
    IN  <<(s * n) \div g, (s * d) \div g>>

Zero == R(0, 1)
One == R(1, 1)
RAdd(x, y) == R(x[1] * y[2] + y[1] * x[2], x[2] * y[2])
RSub(x, y) == R(x[1] * y[2] - y[1] * x[2], x[2] * y[2])
RMul(x, y) == R(x[1] * y[1], x[2] * y[2])
\* x / y for y # 0
RDiv(x, y) == R(x[1] * y[2], x[2] * y[1])

\* Python's sum(list): left fold of + starting from 0
RECURSIVE SumList(_)
SumList(s) == IF s = <<>> THEN Zero ELSE RAdd(SumList(SubSeq(s, 1, Len(s) - 1)), s[Len(s)])

(* ------------------------------ str ----------------------------------- *)
AlphaChars == {"U", "O", "X"}
DigitChars == {"4", "5", "6", "8"}
OtherChars == {"-"}

\* str.isalpha(): non-empty and every character alphabetic
isalpha(k) == Len(k) > 0 /\ \A i \in 1..Len(k) : k[i] \in AlphaChars
\* str.isalnum(): non-empty and every character alphabetic or a digit
isalnum(k) == Len(k) > 0 /\ \A i \in 1..Len(k) : k[i] \in AlphaChars \cup DigitChars

\* numpy.prod of a list of bools (the empty product is 1)
RECURSIVE np_prod(_)
np_prod(bools) ==
    IF bools = <<>> THEN 1 ELSE (IF Head(bools) THEN 1 ELSE 0) * np_prod(Tail(bools))

\* bool(number)
bool(x) == x # 0

\* the items of a set as a list, in some iteration order
RECURSIVE list(_)
list(S) == IF S = {} THEN <<>> ELSE LET x == CHOOSE x \in S : TRUE IN <<x>> \o list(S \ {x})

U4 == <<"U", "4">>
U5 == <<"U", "5">>
U8 == <<"U", "8">>
O6 == <<"O", "6">>
\* the nuclide symbols of the model, in a fixed order
NuclideList == <<U4, U5, U8, O6>>
\* the nuclide symbols a pollutants / enrichers dict draws its keys from
\* (U4 is only ever a key of abundance)
InjectedList == <<U5, U8, O6>>
\* the element symbols of the model ("X" has no natural-abundance entry)
ElementList == << <<"U">>, <<"O">>, <<"X">> >>

(* ------------------------------ dict ---------------------------------- *)
dict_keys(d) == [i \in 1..Len(d) |-> d[i][1]]
dict_values(d) == [i \in 1..Len(d) |-> d[i][2]]
KeySet(d) == {d[i][1] : i \in 1..Len(d)}
Has(d, k) == k \in KeySet(d)
\* d[k] for k in d
Get(d, k) == d[CHOOSE i \in 1..Len(d) : d[i][1] = k][2]
\* d[k] = v: overwrite in place when k is present, append otherwise
SetItem(d, k, v) ==
    IF Has(d, k)
    THEN [i \in 1..Len(d) |-> IF d[i][1] = k THEN <<k, v>> ELSE d[i]]
    ELSE Append(d, <<k, v>>)
\* dict equality (==): same keys with the same values, order ignored
DictEq(d, e) == KeySet(d) = KeySet(e) /\ \A k \in KeySet(d) : Get(d, k) = Get(e, k)

(* ------------------------------ heap ---------------------------------- *)
NewId(h) == Cardinality(DOMAIN h) + 1
\* h with h[ref][k] = v
HeapSet(h, ref, k, v) == [h EXCEPT ![ref] = SetItem(h[ref], k, v)]

\* alias instead of copy: the "copy" is the same object
DictAlias(h, ref) == [heap |-> h, ref |-> ref]
\* d.copy(): a fresh object holding the same items
DictCopy(h, ref) == [heap |-> h @@ (NewId(h) :> h[ref]), ref |-> NewId(h)]
\* {}: a fresh empty dict
DictNew(h) == [heap |-> h @@ (NewId(h) :> <<>>), ref |-> NewId(h)]
\* what is left of the heap when the locals of a failed call are dropped
DropLocals(h, old) == [r \in DOMAIN old |-> h[r]]

(* ----------------------------- pollute -------------------------------- *)
\* subtracts the pollutant total itself instead of the polluted part
PollutedShareUnscaled(a, p, nuclide) == RSub(Get(a, nuclide), SumList(dict_values(p)))

\* abundance[nuclide] - abundance[nuclide] * sum(pollutants.values())
PollutedShare(a, p, nuclide) ==
    RSub(Get(a, nuclide), RMul(Get(a, nuclide), SumList(dict_values(p))))

\* the for loop of pollute, from item i of abundance on
RECURSIVE PolluteLoop(_, _, _, _, _)
PolluteLoop(h, a, p, polluted, i) ==
    IF i > Len(h[a]) THEN h
    ELSE LET nuclide == h[a][i][1]
         IN  PolluteLoop(HeapSet(h, polluted, nuclide, PollutedShare(h[a], h[p], nuclide)),
                         a, p, polluted, i + 1)

pollute(h, a, p) ==
    LET c == DictCopy(h, p)
    IN  [heap |-> PolluteLoop(c.heap, a, p, c.ref, 1), ret |-> c.ref, status |-> "returned"]

(* -------------------------- classifiers ------------------------------- *)
are_elements(ks) ==
    LET l == list(ks)
    IN  bool(np_prod([i \in 1..Len(l) |-> isalpha(l[i])]))

\* forgets the "not k.isalpha()" factor
are_nuclides_alnum_only(ks) ==
    LET l == list(ks)
    IN  bool(np_prod([i \in 1..Len(l) |-> isalnum(l[i])]))

are_nuclides(ks) ==
    LET l == list(ks)
    IN  /\ bool(np_prod([i \in 1..Len(l) |-> isalnum(l[i])]))
        /\ bool(np_prod([i \in 1..Len(l) |-> ~isalpha(l[i])]))

(* ------------------------ external collaborators ---------------------- *)
\* SEAT.nuclides.nuclide2element: the element symbol a nuclide symbol starts with
RECURSIVE nuclide2element(_)
nuclide2element(k) ==
    IF k = <<>> \/ Head(k) \notin AlphaChars THEN <<>>
    ELSE <<Head(k)>> \o nuclide2element(Tail(k))

\* hasattr(SEAT.natural, element)
HasNatural(element) == element \in {<<"U">>, <<"O">>}
\* getattr(SEAT.natural, element): the natural isotopic split, summing to 1
Natural(element) ==
    IF element = <<"U">> THEN << <<U5, R(1, 4)>>, <<U8, R(3, 4)>> >>
    ELSE << <<O6, R(1, 1)>> >>

(* ------------------------- unfold_composite --------------------------- *)
\* forgets to scale by the element's share
UnfoldedShareUnscaled(v, share) == v
\* v * share
UnfoldedShare(v, share) == RMul(v, share)

\* the inner for of the comprehension: the items of one element's split
RECURSIVE UnfoldElement(_, _, _, _, _)
UnfoldElement(h, new, nat, share, j) ==
    IF j > Len(nat) THEN h
    ELSE UnfoldElement(HeapSet(h, new, nat[j][1], UnfoldedShare(nat[j][2], share)),
                       new, nat, share, j + 1)

\* the outer for of the comprehension, from item i of composite on
RECURSIVE UnfoldLoop(_, _, _, _)
UnfoldLoop(h, c, new, i) ==
    IF i > Len(h[c]) THEN [heap |-> h, status |-> "returned"]
    ELSE LET element == h[c][i][1]
             share == h[c][i][2]
         IN  IF ~HasNatural(element) THEN [heap |-> h, status |-> "AttributeError"]
             ELSE UnfoldLoop(UnfoldElement(h, new, Natural(element), share, 1), c, new, i + 1)

unfold_composite(h, c) ==
    LET n == DictNew(h)
        r == UnfoldLoop(n.heap, c, n.ref, 1)
    IN  IF r.status = "returned"
        THEN [heap |-> r.heap, ret |-> n.ref, status |-> "returned"]
        ELSE [heap |-> DropLocals(r.heap, h), ret |-> 0, status |-> r.status]

(* ------------------------------ enrich -------------------------------- *)
\* sum([v - abundance[k] for k, v in enrichers.items()])
Delta(a, e) == SumList([i \in 1..Len(e) |-> RSub(e[i][2], Get(a, e[i][1]))])

\* the items of abundance of the enriched element that are not enrichers keys
Absorbers(a, e, enriched_element) ==
    SelectSeq(a, LAMBDA it : nuclide2element(it[1]) = enriched_element /\ ~Has(e, it[1]))

\* sum([v for k, v in abundance.items() if nuclide2element(k) == enriched_element
\*                                       and k not in enrichers.keys()])
Capacity(a, e, enriched_element) == SumList(dict_values(Absorbers(a, e, enriched_element)))

\* forgets the "* share" weight of the redistribution
EnrichItemUnweighted(a, e, enriched_element, nuclide, share) ==
    IF Has(e, nuclide) THEN [status |-> "ok", value |-> Get(e, nuclide)]
    ELSE IF nuclide2element(nuclide) # enriched_element
    THEN [status |-> "ok", value |-> Get(a, nuclide)]
    ELSE IF \E k \in KeySet(e) : ~Has(a, k) THEN [status |-> "KeyError", value |-> Zero]
    ELSE IF Capacity(a, e, enriched_element) = Zero
    THEN [status |-> "ZeroDivisionError", value |-> Zero]
    ELSE [status |-> "ok",
          value |-> RSub(Get(a, nuclide), RDiv(Delta(a, e), Capacity(a, e, enriched_element)))]

\* sums the enrichers values instead of their differences to abundance
EnrichItemAbsoluteDelta(a, e, enriched_element, nuclide, share) ==
    IF Has(e, nuclide) THEN [status |-> "ok", value |-> Get(e, nuclide)]
    ELSE IF nuclide2element(nuclide) # enriched_element
    THEN [status |-> "ok", value |-> Get(a, nuclide)]
    ELSE IF \E k \in KeySet(e) : ~Has(a, k) THEN [status |-> "KeyError", value |-> Zero]
    ELSE IF Capacity(a, e, enriched_element) = Zero
    THEN [status |-> "ZeroDivisionError", value |-> Zero]
    ELSE [status |-> "ok",
          value |-> RSub(Get(a, nuclide),
                         RDiv(RMul(SumList(dict_values(e)), share),
                              Capacity(a, e, enriched_element)))]

\* has no branch for the nuclides of other elements
EnrichItemNoElif(a, e, enriched_element, nuclide, share) ==
    IF Has(e, nuclide) THEN [status |-> "ok", value |-> Get(e, nuclide)]
    ELSE IF \E k \in KeySet(e) : ~Has(a, k) THEN [status |-> "KeyError", value |-> Zero]
    ELSE IF Capacity(a, e, enriched_element) = Zero
    THEN [status |-> "ZeroDivisionError", value |-> Zero]
    ELSE [status |-> "ok",
          value |-> RSub(Get(a, nuclide),
                         RDiv(RMul(Delta(a, e), share), Capacity(a, e, enriched_element)))]

\* the body of the for loop of enrich: the value stored for one item of
\* abundance, or the exception raised while computing it.  The operands of
\*   abundance[nuclide] - sum([v - abundance[k] ...]) * share / sum([...])
\* are evaluated left to right: the KeyError of abundance[k] comes before the
\* ZeroDivisionError of the division.
EnrichItem(a, e, enriched_element, nuclide, share) ==
    IF Has(e, nuclide) THEN [status |-> "ok", value |-> Get(e, nuclide)]
    ELSE IF nuclide2element(nuclide) # enriched_element
    THEN [status |-> "ok", value |-> Get(a, nuclide)]
    ELSE IF \E k \in KeySet(e) : ~Has(a, k) THEN [status |-> "KeyError", value |-> Zero]
    ELSE IF Capacity(a, e, enriched_element) = Zero
    THEN [status |-> "ZeroDivisionError", value |-> Zero]
    ELSE [status |-> "ok",
          value |-> RSub(Get(a, nuclide),
                         RDiv(RMul(Delta(a, e), share), Capacity(a, e, enriched_element)))]

\* the for loop of enrich, from item i of abundance on
RECURSIVE EnrichLoop(_, _, _, _, _, _)
EnrichLoop(h, a, e, enriched, enriched_element, i) ==
    IF i > Len(h[a]) THEN [heap |-> h, status |-> "returned"]
    ELSE LET nuclide == h[a][i][1]
             share == h[a][i][2]
             r == EnrichItem(h[a], h[e], enriched_element, nuclide, share)
         IN  IF r.status # "ok" THEN [heap |-> h, status |-> r.status]
             ELSE EnrichLoop(HeapSet(h, enriched, nuclide, r.value),
                             a, e, enriched, enriched_element, i + 1)

\* starts from a copy of enrichers instead of an empty dict
enrich_from_enrichers(h, a, e) ==
    LET n == DictCopy(h, e)
    IN  IF Len(h[e]) = 0 THEN [heap |-> h, ret |-> 0, status |-> "IndexError"]
        ELSE LET enriched_element == nuclide2element(dict_keys(h[e])[1])
                 r == EnrichLoop(n.heap, a, e, n.ref, enriched_element, 1)
             IN  IF r.status = "returned"
                 THEN [heap |-> r.heap, ret |-> n.ref, status |-> "returned"]
                 ELSE [heap |-> DropLocals(r.heap, h), ret |-> 0, status |-> r.status]

enrich(h, a, e) ==
    LET n == DictNew(h)
    IN  IF Len(h[e]) = 0 THEN [heap |-> h, ret |-> 0, status |-> "IndexError"]
        ELSE LET enriched_element == nuclide2element(dict_keys(h[e])[1])
                 r == EnrichLoop(n.heap, a, e, n.ref, enriched_element, 1)
             IN  IF r.status = "returned"
                 THEN [heap |-> r.heap, ret |-> n.ref, status |-> "returned"]
                 ELSE [heap |-> DropLocals(r.heap, h), ret |-> 0, status |-> r.status]

(* ------------------------------ inputs -------------------------------- *)
Vals == {R(2 * n, 3) : n \in 0..MaxNum}

Range(s) == {s[i] : i \in 1..Len(s)}

\* the dicts over the symbols of syms, keys in the order of syms, up to n items
RECURSIVE OrderedDicts(_, _)
OrderedDicts(syms, n) ==
    IF syms = <<>> \/ n = 0 THEN {<<>>}
    ELSE LET rest == OrderedDicts(Tail(syms), n)
             less == OrderedDicts(Tail(syms), n - 1)
         IN  rest \cup {<<(<<Head(syms), v>>)>> \o d : v \in Vals, d \in less}

\* the dicts over the symbols of set, keys in any order, up to n items
RECURSIVE AnyDicts(_, _)
AnyDicts(set, n) ==
    IF n = 0 THEN {<<>>}
    ELSE {<<>>} \cup UNION {{<<(<<k, v>>)>> \o d : v \in Vals, d \in AnyDicts(set \ {k}, n - 1)} : k \in set}


\* the strs over StrChars of length up to n
StrChars == {"U", "5", "-"}
RECURSIVE Strs(_)
Strs(n) == IF n = 0 THEN {<<>>} ELSE {<<>>} \cup {<<c>> \o s : c \in StrChars, s \in Strs(n - 1)}

\* the subsets of S with up to n members
RECURSIVE SetsUpTo(_, _)
SetsUpTo(S, n) == IF n = 0 THEN {{}} ELSE {{}} \cup {s \cup {x} : s \in SetsUpTo(S, n - 1), x \in S}

NoCall == [fn |-> "none", args |-> <<>>]

\* the arguments of a call: two dict objects on the heap and a set of strs
Input(a, e, ks) == [heap |-> (1 :> a) @@ (2 :> e), keys |-> ks]

\* a nuclidic composition and a pollutants / enrichers mapping
NuclidicInputs ==
    {Input(a, e, {}) : a \in OrderedDicts(NuclideList, MaxLen),
                       e \in AnyDicts(Range(InjectedList), MaxEnr)}
\* an elemental composition
ElementalInputs == {Input(c, <<>>, {}) : c \in AnyDicts(Range(ElementList), MaxLen)}
\* a set of strs for the classifiers
KeysInputs == {Input(<<>>, <<>>, ks) : ks \in SetsUpTo(Strs(MaxStrLen), MaxKeys)}

\* the arguments are in place and nothing has been called yet
Start(inputs) ==
    /\ \E in \in inputs : heap = in.heap /\ keys = in.keys
    /\ call = NoCall
    /\ ret = 0
    /\ answer = FALSE
    /\ status = "ready"

Init == Start(NuclidicInputs \cup ElementalInputs \cup KeysInputs)
InitTransforms == Start(NuclidicInputs \cup ElementalInputs)
InitPollute == Start(NuclidicInputs)
InitEnrich == Start(NuclidicInputs)
InitUnfold == Start(ElementalInputs)
InitClassify == Start(KeysInputs)

Pollute(a, p) ==
    /\ status = "ready"
    /\ LET r == pollute(heap, a, p)
       IN  /\ heap' = r.heap
           /\ ret' = r.ret
           /\ status' = r.status
    /\ call' = [fn |-> "pollute", args |-> <<a, p>>]
    /\ UNCHANGED <<keys, answer>>

Enrich(a, e) ==
    /\ status = "ready"
    /\ LET r == enrich(heap, a, e)
       IN  /\ heap' = r.heap
           /\ ret' = r.ret
           /\ status' = r.status
    /\ call' = [fn |-> "enrich", args |-> <<a, e>>]
    /\ UNCHANGED <<keys, answer>>

UnfoldComposite(c) ==
    /\ status = "ready"
    /\ LET r == unfold_composite(heap, c)
       IN  /\ heap' = r.heap
           /\ ret' = r.ret
           /\ status' = r.status
    /\ call' = [fn |-> "unfold_composite", args |-> <<c>>]
    /\ UNCHANGED <<keys, answer>>

AreElements ==
    /\ status = "ready"
    /\ answer' = are_elements(keys)
    /\ status' = "returned"
    /\ call' = [fn |-> "are_elements", args |-> <<>>]
    /\ UNCHANGED <<heap, keys, ret>>

AreNuclides ==
    /\ status = "ready"
    /\ answer' = are_nuclides(keys)
    /\ status' = "returned"
    /\ call' = [fn |-> "are_nuclides", args |-> <<>>]
    /\ UNCHANGED <<heap, keys, ret>>

\* the second argument is a separate object (2) or the first one again (1)
NextPollute == \E p \in {1, 2} : Pollute(1, p)
NextEnrich == \E e \in {1, 2} : Enrich(1, e)
NextUnfold == UnfoldComposite(1)
NextClassify == AreElements \/ AreNuclides
NextTransforms == NextPollute \/ NextEnrich \/ NextUnfold

Next == NextTransforms \/ NextClassify

\* every function on every input
Spec == Init /\ [][Next]_vars
\* the three transforms on nuclidic and elemental compositions
SpecTransforms == InitTransforms /\ [][NextTransforms]_vars
\* one function each
SpecPollute == InitPollute /\ [][NextPollute]_vars
SpecEnrich == InitEnrich /\ [][NextEnrich]_vars
SpecUnfold == InitUnfold /\ [][NextUnfold]_vars
SpecClassify == InitClassify /\ [][NextClassify]_vars

(* ------------------------------ claims -------------------------------- *)
\* the dicts of the last call: its arguments and the mapping it returned
Arg1 == heap[call.args[1]]
Arg2 == heap[call.args[2]]
Result == heap[ret]
Returned(fn) == call.fn = fn /\ status = "returned"
Called(fn) == call.fn = fn /\ status # "ready"

\* the target element E of an enrich call with non-empty enrichers
TargetElement == nuclide2element(Arg2[1][1])
\* the sum of d over the nuclides of element el
ElementMass(d, el) == SumList(dict_values(SelectSeq(d, LAMBDA it : nuclide2element(it[1]) = el)))
\* every enrichers key is an isotope of the target element and a key of abundance
EnrichersWithinElement ==
    /\ Len(Arg2) > 0
    /\ \A k \in KeySet(Arg2) : Has(Arg1, k) /\ nuclide2element(k) = TargetElement

\* C1 (as claimed): every nuclide that is a key of both abundance and
\* pollutants has pollute(abundance, pollutants)[n] = pollutants[n].
C1_PollutantWins ==
    Returned("pollute") =>
        \A n \in KeySet(Arg1) \cap KeySet(Arg2) : Get(Result, n) = Get(Arg2, n)

\* C2 (as claimed): when every nuclide of the target element in abundance is
\* also a key of enrichers, enrich ends in an explicit domain error; it neither
\* returns a mapping nor propagates a raw ZeroDivisionError.  (Stated for an
\* abundance that holds at least one nuclide of the target element.)
C2_ExplicitDomainError ==
    (/\ Called("enrich")
     /\ Len(Arg2) > 0
     /\ \E n \in KeySet(Arg1) : nuclide2element(n) = TargetElement
     /\ \A n \in KeySet(Arg1) : nuclide2element(n) = TargetElement => Has(Arg2, n))
    => status = "DomainError"

\* C3: when all enrichers keys are isotopes of one element E that are keys of
\* abundance, and some isotope of E in abundance is not an enrichers key, with
\* S # 0, enrich returns and the mass of element E in the result equals the
\* mass of element E in abundance.
C3_EnrichConservesElementMass ==
    (/\ Called("enrich")
     /\ EnrichersWithinElement
     /\ Absorbers(Arg1, Arg2, TargetElement) # <<>>
     /\ Capacity(Arg1, Arg2, TargetElement) # Zero)
    => /\ status = "returned"
       /\ ElementMass(Result, TargetElement) = ElementMass(Arg1, TargetElement)

\* a redistribution that moves mass (Delta # 0) onto two absorbing isotopes
C3_Witness ==
    /\ Returned("enrich")
    /\ EnrichersWithinElement
    /\ Len(Absorbers(Arg1, Arg2, TargetElement)) >= 2
    /\ Capacity(Arg1, Arg2, TargetElement) # Zero
    /\ Delta(Arg1, Arg2) # Zero

\* C4: for abundance and pollutants with disjoint key sets, pollute returns a
\* mapping whose keys are the union of both key sets, with every pollutant key
\* p at pollutants[p] and every abundance key n at abundance[n] * (1 - T),
\* T the sum of the pollutants values, also for T >= 1.
C4_PolluteDisjoint ==
    (Called("pollute") /\ KeySet(Arg1) \cap KeySet(Arg2) = {})
    => /\ status = "returned"
       /\ KeySet(Result) = KeySet(Arg1) \cup KeySet(Arg2)
       /\ \A k \in KeySet(Arg2) : Get(Result, k) = Get(Arg2, k)
       /\ \A n \in KeySet(Arg1) :
             Get(Result, n) = RMul(Get(Arg1, n), RSub(One, SumList(dict_values(Arg2))))

\* disjoint keys with T > 1: a base fraction has become negative
C4_Witness ==
    /\ Returned("pollute")
    /\ KeySet(Arg1) \cap KeySet(Arg2) = {}
    /\ SumList(dict_values(Arg2))[1] > SumList(dict_values(Arg2))[2]
    /\ \E n \in KeySet(Arg1) : Get(Result, n)[1] < 0

\* C5: for a composite whose element symbols all have a natural-abundance
\* entry, unfold_composite returns and the sum of its values equals the sum
\* of the values of composite.
C5_UnfoldConservesMass ==
    (Called("unfold_composite") /\ \A el \in KeySet(Arg1) : HasNatural(el))
    => /\ status = "returned"
       /\ SumList(dict_values(Result)) = SumList(dict_values(Arg1))

\* two known elements with non-zero shares have been unfolded
C5_Witness ==
    /\ Returned("unfold_composite")
    /\ Len(Arg1) = 2
    /\ \A i \in 1..Len(Arg1) : Arg1[i][2] # Zero
    /\ Len(Result) = 3

\* the enrichers are non-empty, of one element, and hold the fractions
\* abundance already holds for their keys
IdentityEnrichment ==
    /\ Called("enrich")
    /\ EnrichersWithinElement
    /\ \A k \in KeySet(Arg2) : Get(Arg2, k) = Get(Arg1, k)

OnlyAlnumChars(k) == \A i \in 1..Len(k) : k[i] \in AlphaChars \cup DigitChars
\* some character is a digit
HasDigit(k) == \E i \in 1..Len(k) : k[i] \in DigitChars

\* C7: are_nuclides(keys) is true iff every str in keys consists only of
\* alphanumeric characters and contains at least one digit (true for the
\* empty set, false with a purely alphabetic or an empty str).
C7_AreNuclides ==
    Called("are_nuclides") => (answer <=> \A k \in keys : OnlyAlnumChars(k) /\ HasDigit(k))

\* two nuclide-formatted strs were accepted
C7_Witness ==
    /\ Called("are_nuclides")
    /\ Cardinality(keys) = 2
    /\ answer

\* C8: when enrich returns, every abundance key that is not an enrichers key
\* and is of another element than the target keeps its abundance, and every
\* key of both abundance and enrichers has the enrichers value.
C8_EnrichFrame ==
    Returned("enrich") =>
        /\ \A n \in KeySet(Arg1) \ KeySet(Arg2) :
              nuclide2element(n) # TargetElement => Get(Result, n) = Get(Arg1, n)
        /\ \A n \in KeySet(Arg1) \cap KeySet(Arg2) : Get(Result, n) = Get(Arg2, n)

\* mass was redistributed within the target element while a nuclide of
\* another element with a non-zero fraction was present
C8_Witness ==
    /\ Returned("enrich")
    /\ EnrichersWithinElement
    /\ Absorbers(Arg1, Arg2, TargetElement) # <<>>
    /\ Delta(Arg1, Arg2) # Zero
    /\ \E n \in KeySet(Arg1) : nuclide2element(n) # TargetElement /\ Get(Arg1, n) # Zero
    /\ \E n \in KeySet(Arg1) \cap KeySet(Arg2) : Get(Arg2, n) # Get(Arg1, n)

\* C9: no call of pollute, enrich or unfold_composite, returning or failing,
\* changes an object that existed before the call, and the mapping a call
\* returns is an object that did not exist before it.
C9_InputsNotMutated ==
    [][/\ \A r \in DOMAIN heap : r \in DOMAIN heap' /\ heap'[r] = heap[r]
       /\ (status' = "returned" /\ call'.fn \in {"pollute", "enrich", "unfold_composite"})
             => ret' \notin DOMAIN heap]_vars

\* pollute was called with one object as both arguments and returned a
\* mapping that differs from it
C9_Witness ==
    /\ Returned("pollute")
    /\ call.args = <<1, 1>>
    /\ heap[1] # <<>>
    /\ Result # heap[1]

\* C10: when enrich returns, the key set of the result is the key set of
\* abundance.
C10_EnrichKeepsKeys ==
    Returned("enrich") => KeySet(Result) = KeySet(Arg1)

\* enrich returned although an enrichers key is not a key of abundance
C10_Witness ==
    /\ Returned("enrich")
    /\ Arg1 # <<>>
    /\ \E k \in KeySet(Arg2) : ~Has(Arg1, k)

====
